---- MODULE Spec2Model ----
(***************************************************************************)
(* Consistent-hashing ring of src/src/lib.rs: Ring { replicas, nodes,      *)
(* vnodes } with Ring::new, contains_name, contains, add, remove,          *)
(* get_with_hash and get.                                                   *)
(*                                                                         *)
(* A node is represented by its name (tests::TestNode has the single field *)
(* id, and its Eq/Ord compare names).  The SHA-1 digest of hash_key is an  *)
(* unknown but fixed function from key strings to hex strings; the model   *)
(* keeps it in the variable digest, drawn once by Init and never changed.  *)
(* Hash strings are only ever compared, so a digest is represented by the  *)
(* order of its values: Init draws every function onto an initial segment  *)
(* of a small ordered hash space, which covers every relative order of the *)
(* vnode hashes, collisions included.                                      *)
(***************************************************************************)
EXTENDS Integers, Sequences, FiniteSets, TLC

\* ---------------------------------------------------------------- bounds
\* largest replica count handed to Ring::new
MaxReplicas == 2
\* number of distinct digests (hash strings are compared lexically; only
\* their order matters, so they are the integers 0..MaxHash-1)
MaxHash == 4

\* longest vnode sequence explored: remove can leave vnodes of a node that is
\* no longer stored, so add/remove cycles grow the sequence without limit
MaxVNodes == 6

\* the node values of the tests, in the order of their Ord (by name)
NodeOrder == <<"Bar", "Baz", "Foo">>

\* the node values the caller holds
Names == {"Bar", "Foo"}

HashSpace == 0..(MaxHash - 1)

\* the hash strings handed to get_with_hash: the digests and one string that
\* is above every digest
ProbeSpace == 0..MaxHash

VARIABLES replicas, nodes, vnodes, digest, last

vars == <<replicas, nodes, vnodes, digest, last>>

\* ---------------------------------------------------------------- helpers
\* Option<&N>
None == <<>>

Some(n) == <<n>>

\* <N as Ord>::cmp, by name: -1 Less, 0 Equal, 1 Greater
Rank(n) == CHOOSE i \in 1..Len(NodeOrder) : NodeOrder[i] = n

NodeCmp(a, b) == IF Rank(a) < Rank(b) THEN -1 ELSE IF Rank(a) = Rank(b) THEN 0 ELSE 1

\* format!("{}_{}", node.name(), replica)
VNodeKey(name, replica) == name \o "_" \o ToString(replica)

\* the keys that get hashed: the vnode keys of the caller's nodes
Keys(r) == {VNodeKey(n, i) : n \in Names, i \in 0..(r - 1)}

\* a digest up to order: its values are 0..k-1 for some k
OrderType(d) ==
  \A k \in DOMAIN d : d[k] = 0 \/ \E j \in DOMAIN d : d[j] = d[k] - 1

\* hash_key: the digest of the key
hash_key(key) == digest[key]

\* Vec::remove(i) and Vec::insert(i, e), 1-based here
VecRemove(s, i) == SubSeq(s, 1, i - 1) \o SubSeq(s, i + 1, Len(s))

VecInsert(s, i, e) == SubSeq(s, 1, i - 1) \o <<e>> \o SubSeq(s, i, Len(s))

\* ---------------------------------------------------------------- VNode
VNodeNew(replica, node) ==
  [replica |-> replica, node |-> node, hash |-> hash_key(VNodeKey(node, replica))]

\* Vec::sort on VNodes: stable, ordered by VNode::cmp, i.e. by hash alone
RECURSIVE SortInsert(_, _)
SortInsert(s, v) ==
  IF s = <<>> THEN <<v>>
  ELSE IF s[Len(s)].hash <= v.hash THEN Append(s, v)
  ELSE Append(SortInsert(SubSeq(s, 1, Len(s) - 1), v), s[Len(s)])

RECURSIVE VecSort(_)
VecSort(s) ==
  IF s = <<>> THEN <<>>
  ELSE SortInsert(VecSort(SubSeq(s, 1, Len(s) - 1)), s[Len(s)])

\* variant of create_replicas_for_node: the sort is left out
create_replicas_unsorted(r, node) ==
  [i \in 1..r |-> VNodeNew(i - 1, node)]

create_replicas_for_node(r, node) ==
  VecSort([i \in 1..r |-> VNodeNew(i - 1, node)])

\* ---------------------------------------------------------------- Ring
\* variant of contains_name: only the first stored node is compared
contains_name_first(ns, name) == ns # <<>> /\ ns[1] = name

\* variant of contains_name: only the last stored node is compared
contains_name_last(ns, name) == ns # <<>> /\ ns[Len(ns)] = name

contains_name(ns, name) == \E i \in 1..Len(ns) : ns[i] = name

contains(ns, node) == contains_name(ns, node)

\* variant of the first loop of add: after an insertion the index steps over
\* the vnode that was shifted right
RECURSIVE MergeLoopSkip(_, _, _)
MergeLoopSkip(vn, new, i) ==
  IF ~(i < Len(vn)) THEN [vnodes |-> vn, new_vnodes |-> new]
  ELSE IF new = <<>> THEN [vnodes |-> vn, new_vnodes |-> new]
  ELSE IF vn[i + 1].hash >= new[1].hash
       THEN MergeLoopSkip(VecInsert(vn, i + 1, new[1]), Tail(new), i + 2)
       ELSE MergeLoopSkip(vn, new, i + 1)

\* the first loop of add: i is the 0-based index of the code
RECURSIVE MergeLoop(_, _, _)
MergeLoop(vn, new, i) ==
  IF ~(i < Len(vn)) THEN [vnodes |-> vn, new_vnodes |-> new]
  ELSE IF new = <<>> THEN [vnodes |-> vn, new_vnodes |-> new]
  ELSE IF vn[i + 1].hash >= new[1].hash
       THEN MergeLoop(VecInsert(vn, i + 1, new[1]), Tail(new), i + 1)
       ELSE MergeLoop(vn, new, i + 1)

\* variant of the second loop of add: what is left is put before the vnodes,
\* as the comment above the loop says
PushFront(vn, new) == new \o vn

\* the second loop of add: push what is left
RECURSIVE PushLeft(_, _)
PushLeft(vn, new) ==
  IF new = <<>> THEN vn ELSE PushLeft(Append(vn, new[1]), Tail(new))

\* variant of add's two loops: the vnodes left after the first loop are dropped
AddVNodesNoPush(vn, new) == MergeLoop(vn, new, 0).vnodes

AddVNodes(vn, new) ==
  LET m == MergeLoop(vn, new, 0) IN PushLeft(m.vnodes, m.new_vnodes)

\* variant of the bisection: a stored node that compares Less counts as found
RECURSIVE BinarySearchLe(_, _, _, _)
BinarySearchLe(ns, node, lo, hi) ==
  IF lo >= hi THEN 0
  ELSE LET mid == lo + ((hi - lo) \div 2)
           c == NodeCmp(ns[mid], node)
       IN IF c <= 0 THEN mid
          ELSE BinarySearchLe(ns, node, lo, mid)

\* slice::binary_search_by(|box_node| (**box_node).cmp(node)): bisection of
\* the half-open window lo..hi-1 (1-based), probing its middle element; on a
\* slice that is not sorted it simply follows the comparisons.  The result
\* is i for Ok(i) and 0 for Err(_).
RECURSIVE BinarySearch(_, _, _, _)
BinarySearch(ns, node, lo, hi) ==
  IF lo >= hi THEN 0
  ELSE LET mid == lo + ((hi - lo) \div 2)
           c == NodeCmp(ns[mid], node)
       IN IF c = 0 THEN mid
          ELSE IF c < 0 THEN BinarySearch(ns, node, mid + 1, hi)
          ELSE BinarySearch(ns, node, lo, mid)

binary_search_by(ns, node) == BinarySearch(ns, node, 1, Len(ns) + 1)

\* Vec::retain(|vnode| vnode.node.eq(node))
retain(vn, node) == SelectSeq(vn, LAMBDA v : v.node = node)

\* variant of the scan of get_with_hash: strictly greater instead of >=
RECURSIVE FindStrict(_, _, _)
FindStrict(vn, key_hash, i) ==
  IF i > Len(vn) THEN None
  ELSE IF vn[i].hash > key_hash THEN Some(vn[i].node)
  ELSE FindStrict(vn, key_hash, i + 1)

\* the scan of get_with_hash: the first vnode with hash >= key_hash
RECURSIVE Find(_, _, _)
Find(vn, key_hash, i) ==
  IF i > Len(vn) THEN None
  ELSE IF vn[i].hash >= key_hash THEN Some(vn[i].node)
  ELSE Find(vn, key_hash, i + 1)

\* variant of get_with_hash: falls back to the last vnode instead of the first
get_with_hash_last(vn, key_hash) ==
  IF vn = <<>> THEN None
  ELSE LET f == Find(vn, key_hash, 1) IN
    IF f # None THEN f ELSE Some(vn[Len(vn)].node)

\* variant of get_with_hash: no fallback when no vnode has hash >= key_hash
get_with_hash_nowrap(vn, key_hash) ==
  IF vn = <<>> THEN None ELSE Find(vn, key_hash, 1)

get_with_hash(vn, key_hash) ==
  IF vn = <<>> THEN None
  ELSE LET f == Find(vn, key_hash, 1) IN
    IF f # None THEN f ELSE Some(vn[1].node)

get(vn, key) == get_with_hash(vn, hash_key(key))

\* ---------------------------------------------------------------- state
\* last: the call that produced the state, with the ring as it was before it
Call(op, node, key, hash, ret) ==
  [op |-> op, node |-> node, key |-> key, hash |-> hash, ret |-> ret,
   nodes |-> nodes, vnodes |-> vnodes]

\* Ring::new(r, seed_node)
Init ==
  \E r \in 0..MaxReplicas, seed_node \in Names : \E d \in [Keys(r) -> HashSpace] :
    /\ OrderType(d)
    /\ digest = d
    /\ replicas = r
    /\ nodes = <<seed_node>>
    /\ vnodes = create_replicas_for_node(r, seed_node)
    /\ last = [op |-> "new", node |-> seed_node, key |-> "", hash |-> 0, ret |-> None,
               nodes |-> <<>>, vnodes |-> <<>>]

\* Ring::add(node), explored while the vnode sequence stays within cap
AddUpTo(node, cap) ==
  /\ last' = Call("add", node, "", 0, None)
  /\ IF contains(nodes, node)
     THEN UNCHANGED <<nodes, vnodes>>
     ELSE /\ Len(vnodes) + replicas <= cap
          /\ nodes' = Append(nodes, node)
          /\ vnodes' = AddVNodes(vnodes, create_replicas_for_node(replicas, node))
  /\ UNCHANGED <<replicas, digest>>

Add(node) == AddUpTo(node, MaxVNodes)

Remove(node) ==
  /\ last' = Call("remove", node, "", 0, None)
  /\ LET i == binary_search_by(nodes, node) IN
       IF i # 0
       THEN /\ nodes' = VecRemove(nodes, i)
            /\ vnodes' = retain(vnodes, node)
       ELSE UNCHANGED <<nodes, vnodes>>
  /\ UNCHANGED <<replicas, digest>>

GetWithHash(key_hash) ==
  /\ last' = Call("get_with_hash", "", "", key_hash, get_with_hash(vnodes, key_hash))
  /\ UNCHANGED <<replicas, nodes, vnodes, digest>>

\* variant of Get: the lookup takes the first vnode out of the sequence
GetTake(key) ==
  /\ last' = Call("get", "", key, hash_key(key), get(vnodes, key))
  /\ vnodes' = IF vnodes = <<>> THEN vnodes ELSE Tail(vnodes)
  /\ UNCHANGED <<replicas, nodes, digest>>

Get(key) ==
  /\ last' = Call("get", "", key, hash_key(key), get(vnodes, key))
  /\ UNCHANGED <<replicas, nodes, vnodes, digest>>

Contains(node) ==
  /\ last' = Call("contains", node, "", 0,
                  IF contains(nodes, node) THEN Some(node) ELSE None)
  /\ UNCHANGED <<replicas, nodes, vnodes, digest>>

Next ==
  \/ \E node \in Names : Add(node)
  \/ \E node \in Names : Remove(node)
  \/ \E key_hash \in ProbeSpace : GetWithHash(key_hash)
  \/ \E key \in DOMAIN digest : Get(key)
  \/ \E node \in Names : Contains(node)

Spec == Init /\ [][Next]_vars

\* ---------------------------------------------------------------- scenario
\* tests::get_nodes_test and examples/example.rs: Ring::new(3, Foo) with the
\* nodes Foo, Bar and Baz, and calls on that ring
ScenarioReplicas == 3

ScenarioNames == {"Foo", "Bar", "Baz"}

\* longest vnode sequence explored in the scenario
ScenarioMaxVNodes == 9

\* hash_key on the keys of the scenario: the leading byte of the SHA-1 hex
\* digest of each key (the leading bytes differ, so they order the digests)
ScenarioDigest ==
  "Foo_0" :> 210 @@
  "Foo_1" :> 49 @@
  "Foo_2" :> 77 @@
  "Bar_0" :> 4 @@
  "Bar_1" :> 150 @@
  "Bar_2" :> 116 @@
  "Baz_0" :> 225 @@
  "Baz_1" :> 144 @@
  "Baz_2" :> 89 @@
  "first" :> 224

\* hash strings handed to get_with_hash: the digests, one below and one above
ScenarioProbes == {ScenarioDigest[k] : k \in DOMAIN ScenarioDigest} \cup {0, 255}

ScenarioInit ==
  /\ digest = ScenarioDigest
  /\ replicas = ScenarioReplicas
  /\ nodes = <<"Foo">>
  /\ vnodes = create_replicas_for_node(ScenarioReplicas, "Foo")
  /\ last = [op |-> "new", node |-> "Foo", key |-> "", hash |-> 0, ret |-> None,
             nodes |-> <<>>, vnodes |-> <<>>]

ScenarioAdd(node) == AddUpTo(node, ScenarioMaxVNodes)

ScenarioNext ==
  \/ \E node \in ScenarioNames : ScenarioAdd(node)
  \/ \E node \in ScenarioNames : Remove(node)
  \/ \E key_hash \in ScenarioProbes : GetWithHash(key_hash)
  \/ \E key \in DOMAIN digest : Get(key)
  \/ \E node \in ScenarioNames : Contains(node)

SpecScenario == ScenarioInit /\ [][ScenarioNext]_vars

\* ---------------------------------------------------------------- add, step by step
\* Ring::add with its two loops run one iteration at a time.  Here last is
\* the frame of the call: pc is "loop" in the first loop, "push" in the
\* second and "done" when no call is running; i and new_vnodes are the
\* locals of add; nodes and vnodes are the ring as it was before the call.
Frame(op, node, pc, i, new, ns, vn) ==
  [op |-> op, node |-> node, pc |-> pc, i |-> i, new_vnodes |-> new,
   nodes |-> ns, vnodes |-> vn]

\* variant of the body of the first loop: i is advanced only after an insertion
LoopBodyStuck(vn, new, i) ==
  IF vn[i + 1].hash >= new[1].hash
  THEN [vnodes |-> VecInsert(vn, i + 1, new[1]), new_vnodes |-> Tail(new), i |-> i + 1]
  ELSE [vnodes |-> vn, new_vnodes |-> new, i |-> i]

\* the body of the first loop, once: the insertion and i += 1
LoopBody(vn, new, i) ==
  IF vn[i + 1].hash >= new[1].hash
  THEN [vnodes |-> VecInsert(vn, i + 1, new[1]), new_vnodes |-> Tail(new), i |-> i + 1]
  ELSE [vnodes |-> vn, new_vnodes |-> new, i |-> i + 1]

LoopInit ==
  \E r \in 0..MaxReplicas, seed_node \in Names : \E d \in [Keys(r) -> HashSpace] :
    /\ OrderType(d)
    /\ digest = d
    /\ replicas = r
    /\ nodes = <<seed_node>>
    /\ vnodes = create_replicas_for_node(r, seed_node)
    /\ last = Frame("new", seed_node, "done", 0, <<>>, <<>>, <<>>)

\* add is called: the early return, or the push of the node and the locals
AddCall(node) ==
  /\ last.pc = "done"
  /\ IF contains(nodes, node)
     THEN /\ last' = Frame("add", node, "done", 0, <<>>, nodes, vnodes)
          /\ UNCHANGED nodes
     ELSE /\ Len(vnodes) + replicas <= MaxVNodes
          /\ nodes' = Append(nodes, node)
          /\ last' = Frame("add", node, "loop", 0,
                           create_replicas_for_node(replicas, node), nodes, vnodes)
  /\ UNCHANGED <<replicas, vnodes, digest>>

\* one test of the first loop's condition, with the break or the body
AddLoopStep ==
  /\ last.pc = "loop"
  /\ IF ~(last.i < Len(vnodes)) \/ last.new_vnodes = <<>>
     THEN /\ last' = [last EXCEPT !.pc = "push"]
          /\ UNCHANGED vnodes
     ELSE LET b == LoopBody(vnodes, last.new_vnodes, last.i) IN
          /\ vnodes' = b.vnodes
          /\ last' = [last EXCEPT !.i = b.i, !.new_vnodes = b.new_vnodes]
  /\ UNCHANGED <<replicas, nodes, digest>>

\* one test of the second loop's condition, with the push or the return
AddPushStep ==
  /\ last.pc = "push"
  /\ IF last.new_vnodes # <<>>
     THEN /\ vnodes' = Append(vnodes, last.new_vnodes[1])
          /\ last' = [last EXCEPT !.new_vnodes = Tail(last.new_vnodes)]
     ELSE /\ last' = [last EXCEPT !.pc = "done"]
          /\ UNCHANGED vnodes
  /\ UNCHANGED <<replicas, nodes, digest>>

\* Ring::remove(node) between two calls of add
LoopRemove(node) ==
  /\ last.pc = "done"
  /\ last' = Frame("remove", node, "done", 0, <<>>, nodes, vnodes)
  /\ LET i == binary_search_by(nodes, node) IN
       IF i # 0
       THEN /\ nodes' = VecRemove(nodes, i)
            /\ vnodes' = retain(vnodes, node)
       ELSE UNCHANGED <<nodes, vnodes>>
  /\ UNCHANGED <<replicas, digest>>

LoopNext ==
  \/ \E node \in Names : AddCall(node)
  \/ AddLoopStep
  \/ AddPushStep
  \/ \E node \in Names : LoopRemove(node)

\* add is sequential code: a call that has started keeps running
SpecAddLoop ==
  LoopInit /\ [][LoopNext]_vars /\ WF_vars(AddLoopStep) /\ WF_vars(AddPushStep)

\* ================================================================ properties
\* vocabulary of the properties, independent of the operators above
Stored(ns, n) == n \in {ns[i] : i \in 1..Len(ns)}

Sorted(vn) == \A i, j \in 1..Len(vn) : i < j => vn[i].hash <= vn[j].hash

\* number of occurrences of x in the sequence s
Count(s, x) == Cardinality({i \in 1..Len(s) : s[i] = x})

\* number of vnodes of node n in the sequence vn
CountOf(vn, n) == Cardinality({i \in 1..Len(vn) : vn[i].node = n})

Elems(s) == {s[i] : i \in 1..Len(s)}

\* sub is s with some elements left out, order kept
RECURSIVE IsSubSeq(_, _)
IsSubSeq(sub, s) ==
  IF sub = <<>> THEN TRUE
  ELSE IF s = <<>> THEN FALSE
  ELSE IF sub[1] = s[1] THEN IsSubSeq(Tail(sub), Tail(s))
  ELSE IsSubSeq(sub, Tail(s))

\* s without the elements that satisfy the test: the owner n's vnodes
Without(vn, n) == SelectSeq(vn, LAMBDA v : v.node # n)

\* the last call was add of a node not stored before it
AddedNew == last.op = "add" /\ ~Stored(last.nodes, last.node)

\* the last call was add of a node already stored
AddedExisting == last.op = "add" /\ Stored(last.nodes, last.node)

\* the last call was remove of a node stored before it
RemovedPresent == last.op = "remove" /\ Stored(last.nodes, last.node)

\* the least hash among the vnodes at the positions S
MinHash(vn, S) == CHOOSE h \in {vn[i].hash : i \in S} : \A i \in S : h <= vn[i].hash

\* the owner a lookup of key_hash must give on the sequence vn
Successor(vn, key_hash, ret) ==
  LET ge == {i \in 1..Len(vn) : vn[i].hash >= key_hash}
      S == IF ge # {} THEN ge ELSE 1..Len(vn)
  IN \E i \in S : vn[i].hash = MinHash(vn, S) /\ ret = Some(vn[i].node)

\* C1: in every state reached from Ring::new by add and remove calls the
\* vnode sequence is sorted ascending (non-decreasing) by hash.
C1_VNodesSorted == Sorted(vnodes)

\* an add has merged two new vnodes between the vnodes of the other node
C1_Witness ==
  /\ AddedNew
  /\ Len(vnodes) = 4
  /\ vnodes[1].node = last.node /\ vnodes[2].node # last.node
  /\ vnodes[3].node = last.node /\ vnodes[4].node # last.node
  /\ vnodes[1].hash < vnodes[2].hash /\ vnodes[3].hash < vnodes[4].hash

\* C2: with a non-empty vnode sequence get_with_hash(key_hash) returns the
\* owner of the vnode with the least hash >= key_hash, and the owner of the
\* vnode with the least hash of all when key_hash is above every vnode hash.
C2_LookupSuccessor ==
  (last.op \in {"get_with_hash", "get"} /\ vnodes # <<>>)
    => Successor(vnodes, last.hash, last.ret)

\* a lookup above every vnode hash wrapped around to the first vnode, whose
\* owner is not the owner of the last vnode
C2_Witness ==
  /\ last.op = "get_with_hash"
  /\ Len(vnodes) >= 2
  /\ \A i \in 1..Len(vnodes) : vnodes[i].hash < last.hash
  /\ vnodes[1].node # vnodes[Len(vnodes)].node
  /\ last.ret = Some(vnodes[1].node)

\* C3: removing a stored owner decreases the owner count by 1 and removes
\* exactly that owner's r vnodes; the vnodes of the other owners stay, in
\* the same relative order.
C3_RemoveDeletesOwnersVNodes ==
  RemovedPresent =>
    /\ Len(nodes) = Len(last.nodes) - 1
    /\ vnodes = Without(last.vnodes, last.node)
    /\ Len(vnodes) = Len(last.vnodes) - replicas

\* C4: if contains(o.name) holds before remove(o) then it is false right
\* after it; remove changes nothing only when no stored owner matches o.
C4_RemoveDropsOwner ==
  last.op = "remove" =>
    /\ Stored(last.nodes, last.node) => ~Stored(nodes, last.node)
    /\ (nodes = last.nodes /\ vnodes = last.vnodes) => ~Stored(last.nodes, last.node)

\* C5: adding an owner whose name is not stored increases the owner count
\* by 1 and the vnode count by r; the r new vnodes are the replicas 0..r-1
\* of the new owner, and every vnode present before is still present in the
\* same relative order.
C5_AddGrows ==
  AddedNew =>
    /\ Len(nodes) = Len(last.nodes) + 1
    /\ Stored(nodes, last.node)
    /\ Len(vnodes) = Len(last.vnodes) + replicas
    /\ IsSubSeq(last.vnodes, vnodes)
    /\ \A v \in Elems(vnodes) :
         Count(vnodes, v) - Count(last.vnodes, v) =
           IF v.node = last.node /\ v.replica \in 0..(replicas - 1) THEN 1 ELSE 0
    /\ \A i \in 0..(replicas - 1) : \E v \in Elems(vnodes) :
         /\ v.node = last.node /\ v.replica = i
         /\ v.hash = digest[VNodeKey(last.node, i)]

\* an add put two new vnodes into a ring that held two vnodes, one of them
\* after every vnode that was there
C5_Witness ==
  /\ AddedNew
  /\ replicas = 2
  /\ Len(last.vnodes) = 2 /\ Len(vnodes) = 4
  /\ vnodes[4].node = last.node
  /\ vnodes[1].node = last.node
  /\ vnodes[2].node # last.node

\* C6: add of an owner whose name is already stored leaves the owner
\* collection and the vnode sequence exactly as they were.
C6_AddExistingNoOp ==
  AddedExisting => (nodes = last.nodes /\ vnodes = last.vnodes)

\* the second of two stored owners was added again
C6_Witness ==
  /\ AddedExisting
  /\ Len(nodes) = 2 /\ last.node = nodes[2]
  /\ Len(vnodes) = 4

\* C7: each stored owner has exactly replicas vnodes and no vnode belongs
\* to an owner that is not stored, so the vnode count is replicas times the
\* owner count.
C7_ReplicasPerOwner ==
  /\ \A n \in Elems(nodes) : CountOf(vnodes, n) = replicas
  /\ \A v \in Elems(vnodes) : Stored(nodes, v.node)
  /\ Len(vnodes) = replicas * Len(nodes)

\* C8: the ring returned by Ring::new(r, S) with r >= 1 has exactly the one
\* owner S and exactly r vnodes, all of S, with the replica indices 0..r-1,
\* sorted ascending by hash.
C8_NewRing ==
  (last.op = "new" /\ replicas >= 1) =>
    /\ nodes = <<last.node>>
    /\ Len(vnodes) = replicas
    /\ \A i \in 1..Len(vnodes) :
         /\ vnodes[i].node = last.node
         /\ vnodes[i].hash = digest[VNodeKey(last.node, vnodes[i].replica)]
    /\ {vnodes[i].replica : i \in 1..Len(vnodes)} = 0..(replicas - 1)
    /\ Sorted(vnodes)

\* a new ring whose replica 1 hashes below its replica 0
C8_Witness ==
  /\ last.op = "new"
  /\ replicas = 2
  /\ Len(vnodes) = 2
  /\ vnodes[1].replica = 1 /\ vnodes[2].replica = 0
  /\ vnodes[1].hash < vnodes[2].hash

\* distinct owner-name/replica pairs have distinct hashes
DistinctHashes ==
  \A k1, k2 \in DOMAIN digest : k1 # k2 => digest[k1] # digest[k2]

\* C9: provided distinct owner-name/replica pairs have distinct hashes, for
\* every vnode in the sequence, with replica index i and owner O, the lookup
\* of the key O.name_i returns O.
C9_VNodeKeyRoundTrip ==
  DistinctHashes =>
    /\ \A i \in 1..Len(vnodes) :
         get(vnodes, VNodeKey(vnodes[i].node, vnodes[i].replica)) = Some(vnodes[i].node)
    /\ last.op = "get" =>
         \A i \in 1..Len(vnodes) :
           last.key = VNodeKey(vnodes[i].node, vnodes[i].replica)
             => last.ret = Some(vnodes[i].node)

\* the key of the third of four vnodes of two owners was looked up
C9_Witness ==
  /\ DistinctHashes
  /\ last.op = "get"
  /\ Len(vnodes) = 4
  /\ last.key = VNodeKey(vnodes[3].node, vnodes[3].replica)
  /\ vnodes[2].node # vnodes[3].node
  /\ vnodes[4].node # vnodes[3].node
  /\ last.ret = Some(vnodes[3].node)

\* C10: a membership change reassigns only the keys it must: a key whose
\* lookup differs across add(n) of a new owner n maps to n afterwards, and a
\* key whose lookup differs across remove(o) of a stored owner o mapped to o
\* before.
C10_MinimalReassignment ==
  /\ AddedNew =>
       \A h \in ProbeSpace :
         get_with_hash(last.vnodes, h) # get_with_hash(vnodes, h)
           => get_with_hash(vnodes, h) = Some(last.node)
  /\ RemovedPresent =>
       \A h \in ProbeSpace :
         get_with_hash(last.vnodes, h) # get_with_hash(vnodes, h)
           => get_with_hash(last.vnodes, h) = Some(last.node)

\* the last call was a lookup
LookedUp == last.op \in {"get", "get_with_hash"}

\* C11: remove of an owner whose name is not stored is a no-op: it raises
\* no error and leaves the owner collection and the vnode sequence as they
\* were.
C11_RemoveAbsentNoOp ==
  (last.op = "remove" /\ ~Stored(last.nodes, last.node))
    => (nodes = last.nodes /\ vnodes = last.vnodes)

\* an owner that is not stored was removed from a ring that holds an owner
\* whose name orders below it, and vnodes
C11_Witness ==
  /\ last.op = "remove"
  /\ ~Stored(last.nodes, last.node)
  /\ last.nodes = <<"Bar">> /\ last.node = "Foo"
  /\ Len(vnodes) = 2

\* C12: get and get_with_hash never fail: they return none exactly when the
\* vnode sequence is empty and some owner whenever the ring holds a vnode.
C12_NoneIffEmpty ==
  LookedUp =>
    /\ last.ret = None <=> vnodes = <<>>
    /\ vnodes # <<>> => \E v \in Elems(vnodes) : last.ret = Some(v.node)

\* a key was looked up in a ring with replicas >= 1 whose vnode sequence had
\* become empty, and none came back
C12_Witness ==
  /\ last.op = "get"
  /\ replicas >= 1
  /\ vnodes = <<>>
  /\ last.ret = None

\* the ring holds one owner and exactly that owner's replicas 0..replicas-1,
\* as a ring just built by Ring::new does
SeedOnly ==
  /\ Len(nodes) = 1
  /\ Len(vnodes) = replicas
  /\ \A i \in 1..Len(vnodes) : vnodes[i].node = nodes[1]
  /\ {vnodes[i].replica : i \in 1..Len(vnodes)} = 0..(replicas - 1)

\* C14: in a ring that holds only its seed owner (just built with r >= 1)
\* the lookup of every key returns the seed owner.
C14_SeedOwnsEveryKey ==
  replicas >= 1 =>
    /\ last.op = "new" =>
         /\ \A h \in ProbeSpace : get_with_hash(vnodes, h) = Some(last.node)
         /\ \A k \in DOMAIN digest : get(vnodes, k) = Some(last.node)
    /\ (LookedUp /\ SeedOnly) => last.ret = Some(nodes[1])

\* a key that hashes above both vnodes of a seed-only ring was looked up and
\* the seed came back
C14_Witness ==
  /\ last.op = "get"
  /\ SeedOnly
  /\ replicas = 2
  /\ \A i \in 1..Len(vnodes) : vnodes[i].hash < last.hash
  /\ last.ret = Some(nodes[1])

\* C15: the owner collection never holds two owners with the same name.
C15_NoDuplicateOwners ==
  \A i, j \in 1..Len(nodes) : i # j => nodes[i] # nodes[j]

\* the first of two stored owners was added once more
C15_Witness ==
  /\ last.op = "add"
  /\ Len(last.nodes) = 2
  /\ last.node = last.nodes[1]
  /\ Len(nodes) = 2

\* C16: get, get_with_hash and contains leave the replica count, the owner
\* collection and the vnode sequence unchanged, so a lookup repeated with no
\* add or remove in between returns the same owner.
C16_LookupsReadOnly ==
  [][last'.op \in {"get", "get_with_hash", "contains"} =>
       /\ replicas' = replicas /\ nodes' = nodes /\ vnodes' = vnodes
       /\ last'.nodes = nodes /\ last'.vnodes = vnodes
       /\ (last.op = last'.op /\ last.key = last'.key /\ last.hash = last'.hash
             /\ last.node = last'.node) => last'.ret = last.ret]_vars

\* a key was looked up in a ring of two owners with four vnodes, which is
\* as it was before the lookup
C16_Witness ==
  /\ last.op = "get"
  /\ last.ret # None
  /\ Len(nodes) = 2 /\ Len(vnodes) = 4
  /\ nodes = last.nodes /\ vnodes = last.vnodes

\* C17: any owner returned by get or get_with_hash is stored in the ring:
\* contains(result.name) holds.
C17_LookupReturnsMember ==
  (LookedUp /\ last.ret # None) => Stored(nodes, last.ret[1])

\* C18: add(o) of an owner that is not stored followed by remove(o) restores
\* the owner collection and the vnode sequence; remove(o) of a stored owner
\* followed by add(o) restores the vnode sequence.
C18_AddRemoveRoundTrip ==
  [][/\ (AddedNew /\ last'.op = "remove" /\ last'.node = last.node)
          => (nodes' = last.nodes /\ vnodes' = last.vnodes)
     /\ (RemovedPresent /\ last'.op = "add" /\ last'.node = last.node)
          => vnodes' = last.vnodes]_vars

\* add's state between its two loops, for the add that was just made:
\* vnodes after the first loop and the new vnodes still pending
AfterMergeLoop ==
  MergeLoop(last.vnodes, create_replicas_for_node(replicas, last.node), 0)

FullRing(vn, S) ==
  /\ Sorted(vn)
  /\ Len(vn) = 3 * Cardinality(S)
  /\ \A o \in S, i \in 0..2 :
       Count(vn, [replica |-> i, node |-> o, hash |-> digest[VNodeKey(o, i)]]) = 1

\* C13: Ring::new(3, Foo); add(Bar); add(Baz) gives 3 owners and 9 vnodes,
\* sorted by hash, with get("Foo_0") = Foo; remove(Bar) then gives 2 owners
\* and 6 vnodes, the vnodes of Foo and Baz unchanged and still sorted.
C13_Scenario ==
  /\ (/\ last.op = "add" /\ last.node = "Baz"
      /\ last.nodes = <<"Foo", "Bar">>
      /\ FullRing(last.vnodes, {"Foo", "Bar"}))
       => /\ Len(nodes) = 3 /\ Len(vnodes) = 9
          /\ FullRing(vnodes, {"Foo", "Bar", "Baz"})
          /\ get(vnodes, "Foo_0") = Some("Foo")
  /\ (/\ last.op = "remove" /\ last.node = "Bar"
      /\ last.nodes = <<"Foo", "Bar", "Baz">>
      /\ FullRing(last.vnodes, {"Foo", "Bar", "Baz"}))
       => /\ Len(nodes) = 2 /\ Len(vnodes) = 6
          /\ vnodes = Without(last.vnodes, "Bar")
          /\ FullRing(vnodes, {"Foo", "Baz"})

\* C20: add always terminates: whatever the vnode sequence and the replica
\* count, the first loop (whose bound vnodes.len() grows with each insertion)
\* and the second loop both finish, and no new vnode is pending at the end.
C20_AddTerminates ==
  (last.pc = "loop") ~> (last.pc = "done" /\ last.new_vnodes = <<>>)

\* an add into a ring of two vnodes has returned after its first loop ran
\* past the two vnodes that were there and inserted both new vnodes
C20_Witness ==
  /\ last.op = "add" /\ last.pc = "done"
  /\ Len(last.vnodes) = 2 /\ Len(vnodes) = 4
  /\ last.i = 3
  /\ last.new_vnodes = <<>>
  /\ vnodes[1].node = last.node /\ vnodes[3].node = last.node

\* the step-by-step add ends with the sequence the loops of add compute
AddStepsAgree ==
  (last.op = "add" /\ last.pc = "done" /\ ~Stored(last.nodes, last.node))
    => vnodes = AddVNodes(last.vnodes, create_replicas_for_node(replicas, last.node))

====
